---------------------------- MODULE Spec2Model ----------------------------
(***************************************************************************)
(* A model of the CapEdge client (capedge_client/__init__.py) and of the   *)
(* transcript extractor of the example drivers                             *)
(* (examples/fetch_recent_transcripts.py, examples/fetch_transcript.py).   *)
(*                                                                         *)
(* Text is modelled as a sequence of tokens (a token is a short piece of   *)
(* text: a word, one blank, one entity reference, one punctuation mark),   *)
(* so that strip, unescape, split and startswith are computed, not assumed.*)
(***************************************************************************)
EXTENDS Integers, Sequences, FiniteSets, TLC

VARIABLES
    \* --- transcript extractor (parse_transcript_html) ---
    html_content,    \* the parsed document handed to the extractor
    pc,              \* position of the extractor: "start", "loop", "done", "idle"
    children,        \* list(grid_div.children)
    i,               \* the cursor
    lines,           \* the output lines collected so far
    landed,          \* the cursor value at the start of each iteration, oldest first
    reads,           \* the indices at which the loop has read the child list
    transcript_text, \* the returned string, once pc = "done"
    \* --- client (CapEdgeClient) ---
    upstream,        \* the response the server gives to a GET
    call,            \* the last public operation invoked, with its arguments
    sent,            \* the GETs issued by that invocation, oldest first
    result,          \* what the invocation returned or raised
    invocations,     \* how many public operations were invoked since construction
    gets,            \* how many GETs those invocations issued since construction
    \* --- from_cookie_string ---
    cookie_string,   \* the argument
    cookies,         \* the mapping handed to the constructor, None before that
    \* --- batch driver (main of fetch_recent_transcripts.py) ---
    recent,          \* the transcripts of the last 24 hours, in listing order
    site,            \* for each of them: the answer to the GET of its page, and
                     \* whether its output file can be opened for writing
    finished,        \* how many items of recent the loop has finished with
    batch_pc,        \* position of main: "main", "loop", "parse", "done",
                     \* "returned", "aborted", "idle"
    fetched,         \* the URLs main has called session.get with, oldest first
    report,          \* the status printed for each finished item, oldest first
    files            \* the output directory: path -> what the file holds

extractor_vars == <<html_content, pc, children, i, lines, landed, reads, transcript_text>>
client_vars    == <<upstream, call, sent, result, invocations, gets>>
cookie_vars    == <<cookie_string, cookies>>
batch_vars     == <<recent, site, finished, batch_pc, fetched, report, files>>
vars == <<html_content, pc, children, i, lines, landed, reads, transcript_text,
          upstream, call, sent, result, invocations, gets, cookie_string, cookies,
          recent, site, finished, batch_pc, fetched, report, files>>

-----------------------------------------------------------------------------
(* Bounds *)

\* Longest list of direct children of the grid container.
MaxChildren == 4
\* Longest list of children of a grid in a page laid out in another way than the
\* site's pages are.
MaxOtherChildren == 2
\* Longest "data" list of a JSON payload.
MaxItems == 2
\* Longest cookie string drawn character by character.
MaxCookieChars == 4
\* Most segments of a cookie string put together from whole segments.
MaxSegments == 3
\* Most invocations of public operations on one client.
MaxCalls == 2
\* Longest list of recent transcripts handed to the batch loop.
MaxRecent == 2

-----------------------------------------------------------------------------
(* Sequences of tokens *)

RECURSIVE Flatten(_)
\* The concatenation of a sequence of sequences.
Flatten(ss) == IF ss = <<>> THEN <<>> ELSE Head(ss) \o Flatten(Tail(ss))

RECURSIVE SeqsUpTo(_, _)
\* Every sequence over S of length at most n.
SeqsUpTo(S, n) ==
    IF n = 0 THEN {<<>>}
    ELSE LET shorter == SeqsUpTo(S, n - 1)
         IN  shorter \cup {Append(s, x) : s \in shorter, x \in S}

Min(a, b) == IF a <= b THEN a ELSE b
Max(a, b) == IF a >= b THEN a ELSE b

-----------------------------------------------------------------------------
(* The document tree (BeautifulSoup) *)

NL == "\n"
Whitespace == {" ", NL}

\* A tag: bs4.element.Tag with its name, its classes and its contents.
Tag(name, classes, kids) ==
    [name |-> name, classes |-> classes, text |-> <<>>, kids |-> kids]
\* A string of the document: bs4.element.NavigableString, whose .name is None.
Str(text) == [name |-> "None", classes |-> {}, text |-> text, kids |-> <<>>]
\* The None that find() returns when nothing matches.
NoNode == [name |-> "None", classes |-> {"<no match>"}, text |-> <<>>, kids |-> <<>>]

RECURSIVE FindIn(_, _, _)
\* Tag.find(name, class_=cls) over the contents `nodes`: the first tag in document
\* order (a tag before its descendants, before its later siblings) that has the
\* name and the class, or None.
FindIn(nodes, name, cls) ==
    IF nodes = <<>> THEN NoNode
    ELSE LET n == Head(nodes)
         IN  IF n.name = name /\ cls \in n.classes THEN n
             ELSE LET below == FindIn(n.kids, name, cls)
                  IN  IF below # NoNode THEN below
                      ELSE FindIn(Tail(nodes), name, cls)

find(node, name, cls) == FindIn(node.kids, name, cls)

RECURSIVE FindAllIn(_, _)
\* Tag.find_all(name) over the contents `nodes`: every descendant tag with the
\* name, in document order.
FindAllIn(nodes, name) ==
    IF nodes = <<>> THEN <<>>
    ELSE LET n == Head(nodes)
         IN  (IF n.name = name THEN <<n>> ELSE <<>>)
             \o FindAllIn(n.kids, name) \o FindAllIn(Tail(nodes), name)

find_all(node, name) == FindAllIn(node.kids, name)

RECURSIVE lstrip(_)
lstrip(t) == IF t # <<>> /\ Head(t) \in Whitespace THEN lstrip(Tail(t)) ELSE t

RECURSIVE rstrip(_)
rstrip(t) ==
    IF t # <<>> /\ t[Len(t)] \in Whitespace THEN rstrip(SubSeq(t, 1, Len(t) - 1)) ELSE t

\* str.strip()
strip(t) == rstrip(lstrip(t))

RECURSIVE StringsOf(_)
\* The strings below a sequence of nodes, in document order.
StringsOf(nodes) ==
    IF nodes = <<>> THEN <<>>
    ELSE LET n == Head(nodes)
         IN  (IF n.name = "None" THEN <<n.text>> ELSE StringsOf(n.kids))
             \o StringsOf(Tail(nodes))

\* Tag.get_text(): the strings of the tag, concatenated.
get_text(node) == Flatten(StringsOf(<<node>>))

\* Tag.get_text(strip=True): each string stripped, then concatenated.
get_text_strip(node) ==
    LET ss == StringsOf(<<node>>)
    IN  Flatten([k \in 1..Len(ss) |-> strip(ss[k])])

\* html.unescape on one token: an entity reference becomes its character.
UnescapeToken(tok) ==
    CASE tok = "&amp;" -> "&"
      [] tok = "&lt;"  -> "<"
      [] tok = "&gt;"  -> ">"
      [] OTHER         -> tok

\* html.unescape
unescape(t) == [k \in 1..Len(t) |-> UnescapeToken(t[k])]

-----------------------------------------------------------------------------
(* Documents the extractor is run on *)

P(text) == Tag("p", {}, <<Str(text)>>)
H3(text) == Tag("h3", {}, <<Str(text)>>)

H_Alice   == H3(<<"Alice">>)
H_Bob     == H3(<<"Bob">>)
H_Padded  == H3(<<NL, " ", "Carol", " ", "Lee", " ", NL>>)
D_HiThere == Tag("div", {}, <<P(<<"Hi">>), P(<<"There">>)>>)
D_Yo      == Tag("div", {}, <<P(<<"Yo">>)>>)
\* A block whose paragraph is nested one level down, holds an entity reference
\* and stands beside text that is in no paragraph.
D_Nested  == Tag("div", {"prose"},
                 <<Str(<<NL>>),
                   Tag("div", {}, <<P(<<" ", "R", "&amp;", "D", " ">>)>>),
                   Tag("span", {}, <<Str(<<"aside">>)>>)>>)
\* The white space between two tags is a child of its own.
S_Blank   == Str(<<NL, " ">>)
P_Stray   == P(<<"note">>)

ChildKinds == {H_Alice, H_Bob, H_Padded, D_HiThere, D_Yo, D_Nested, S_Blank, P_Stray}
ChildLists == SeqsUpTo(ChildKinds, MaxChildren)

Grid(kids) == Tag("div", {"grid", "grid-cols-1"}, kids)
Soup(kids) == Tag("[document]", {}, kids)

\* The page as the site serves it: the grid directly inside the annotatable.
PageFull(kids) ==
    Soup(<<Tag("div", {"r6o-annotatable"}, <<Grid(kids)>>)>>)
\* The grid one container further down.
PageDeep(kids) ==
    Soup(<<Tag("div", {"header"}, <<>>),
           Tag("div", {"r6o-annotatable", "r6o-content"},
               <<Tag("div", {"wrap"}, <<Str(<<NL>>), Grid(kids)>>)>>)>>)
\* No annotatable container; a grid is there all the same.
PageNoAnnotatable(kids) ==
    Soup(<<Tag("div", {"main"}, <<Grid(kids)>>)>>)
\* An annotatable container with no grid inside; a grid follows it.
PageNoGrid(kids) ==
    Soup(<<Tag("div", {"r6o-annotatable"}, <<P(<<"soon">>)>>), Grid(kids)>>)

OtherChildLists == SeqsUpTo(ChildKinds, MaxOtherChildren)

Pages ==
    {PageFull(k) : k \in ChildLists} \cup {PageDeep(k) : k \in OtherChildLists}
    \cup {PageNoAnnotatable(k) : k \in OtherChildLists}
    \cup {PageNoGrid(k) : k \in OtherChildLists}

-----------------------------------------------------------------------------
(* parse_transcript_html *)

\* "\n".join(lines)
RECURSIVE join(_)
join(ls) ==
    IF ls = <<>> THEN <<>>
    ELSE IF Len(ls) = 1 THEN ls[1]
    ELSE ls[1] \o <<NL>> \o join(Tail(ls))

\* f"\n[{speaker}]\n"
SpeakerLine(speaker) == <<NL, "[">> \o speaker \o <<"]", NL>>

\* ParagraphLines with find_all("p", recursive=False): only the paragraphs that
\* are direct children of the block.
ParagraphLines_DirectOnly(content_div) ==
    LET kids == content_div.kids
        paragraphs == SelectSeq(kids, LAMBDA n : n.name = "p")
    IN  [k \in 1..Len(paragraphs) |-> unescape(get_text(paragraphs[k]))]

\* The lines of one content block: html.unescape(p.get_text()) for each p of
\* content_div.find_all("p").
ParagraphLines(content_div) ==
    LET paragraphs == find_all(content_div, "p")
    IN  [k \in 1..Len(paragraphs) |-> unescape(get_text(paragraphs[k]))]

\* children[k], k counted from 0 as in the source.
ChildAt(k) == children[k + 1]

\* soup.find("div", class_="r6o-annotatable")
transcript_grid(soup) == find(soup, "div", "r6o-annotatable")

\* grid_div looked up in the whole document: soup.find("div", class_="grid")
grid_div_Anywhere(soup) == find(soup, "div", "grid")

\* transcript_grid.find("div", class_="grid")
grid_div(soup) == find(transcript_grid(soup), "div", "grid")

\* The head of the function: the two lookups and their early returns, then
\* children = list(grid_div.children); i = 0.
ParseStart ==
    /\ pc = "start"
    /\ IF transcript_grid(html_content) = NoNode \/ grid_div(html_content) = NoNode
       THEN /\ pc' = "done"
            /\ transcript_text' = <<>>
            /\ UNCHANGED <<children, i>>
       ELSE /\ pc' = "loop"
            /\ children' = grid_div(html_content).kids
            /\ i' = 0
            /\ UNCHANGED transcript_text
    /\ lines' = <<>>
    /\ UNCHANGED <<html_content, landed, reads>>
    /\ UNCHANGED <<client_vars, cookie_vars, batch_vars>>

\* The h3 iteration without the test of line 40: the element after the heading
\* is read and stepped over whether or not there is one.
LoopHeading_Unguarded ==
    /\ pc = "loop"
    /\ i < Len(children)
    /\ ChildAt(i).name = "h3"
    /\ LET speaker == get_text_strip(ChildAt(i))
           withSpeaker == Append(lines, SpeakerLine(speaker))
       IN  lines' = IF i + 1 < Len(children) /\ ChildAt(i + 1).name = "div"
                    THEN withSpeaker \o ParagraphLines(ChildAt(i + 1))
                    ELSE withSpeaker
    /\ i' = i + 2
    /\ reads' = reads \cup {i, i + 1}
    /\ landed' = Append(landed, i)
    /\ UNCHANGED <<html_content, pc, children, transcript_text>>
    /\ UNCHANGED <<client_vars, cookie_vars, batch_vars>>

\* One iteration whose child is an h3.
LoopHeading ==
    /\ pc = "loop"
    /\ i < Len(children)
    /\ ChildAt(i).name = "h3"
    /\ LET speaker == get_text_strip(ChildAt(i))
           withSpeaker == Append(lines, SpeakerLine(speaker))
       IN  IF i + 1 < Len(children)
           THEN /\ lines' = IF ChildAt(i + 1).name = "div"
                             THEN withSpeaker \o ParagraphLines(ChildAt(i + 1))
                             ELSE withSpeaker
                /\ i' = i + 2
                /\ reads' = reads \cup {i, i + 1}
           ELSE /\ lines' = withSpeaker
                /\ i' = i + 1
                /\ reads' = reads \cup {i}
    /\ landed' = Append(landed, i)
    /\ UNCHANGED <<html_content, pc, children, transcript_text>>
    /\ UNCHANGED <<client_vars, cookie_vars, batch_vars>>

\* One iteration whose child is anything else.
LoopOther ==
    /\ pc = "loop"
    /\ i < Len(children)
    /\ ChildAt(i).name # "h3"
    /\ i' = i + 1
    /\ reads' = reads \cup {i}
    /\ landed' = Append(landed, i)
    /\ UNCHANGED <<html_content, pc, children, lines, transcript_text>>
    /\ UNCHANGED <<client_vars, cookie_vars, batch_vars>>

\* The loop test fails: return "\n".join(lines).
LoopExit ==
    /\ pc = "loop"
    /\ ~(i < Len(children))
    /\ transcript_text' = join(lines)
    /\ pc' = "done"
    /\ UNCHANGED <<html_content, children, i, lines, landed, reads>>
    /\ UNCHANGED <<client_vars, cookie_vars, batch_vars>>

-----------------------------------------------------------------------------
(* Python values *)

\* An Optional: None is <<>>, a value v is <<v>>.
None == <<>>
Some(v) == <<v>>

\* dict.get(key) and dict.get(key, default) on a JSON object (a function of its keys).
Has(d, key) == key \in DOMAIN d
GetOr(d, key, default) == IF Has(d, key) THEN d[key] ELSE default
GetOpt(d, key) == IF Has(d, key) THEN Some(d[key]) ELSE None

\* The JSON object d without one key.
Without(d, key) == [k \in DOMAIN d \ {key} |-> d[k]]
\* The JSON object d with the key `inner` taken out of its object d[key].
WithoutInner(d, key, inner) ==
    [k \in DOMAIN d |-> IF k = key THEN Without(d[k], inner) ELSE d[k]]

\* seq[:limit]
SliceTo(seq, limit) ==
    IF limit >= 0 THEN SubSeq(seq, 1, Min(limit, Len(seq)))
    ELSE SubSeq(seq, 1, Max(Len(seq) + limit, 0))

RECURSIVE DecimalValue(_)
\* The number a sequence of decimal digits writes.
DecimalValue(digits) ==
    IF digits = <<>> THEN 0
    ELSE 10 * DecimalValue(SubSeq(digits, 1, Len(digits) - 1)) + digits[Len(digits)]

\* A JSON scalar that holds a CIK: a number, or a string of decimal digits.
JInt(digits) == [type |-> "int", digits |-> digits]
JStr(digits) == [type |-> "str", digits |-> digits]

\* int(x) for such a scalar: the number itself, or the number the string writes.
int(x) == DecimalValue(x.digits)

\* What a call gives back: a value, or an exception.
Return(v) == [kind |-> "return", value |-> v]
Raise(e)  == [kind |-> "raise", error |-> e]
NoResult  == [kind |-> "none"]

Returned(r) == r.kind = "return"
Raised(r, e) == r.kind = "raise" /\ r.error = e

\* raise ValueError("Session expired or invalid. ...")
SessionExpired == "ValueError: Session expired or invalid"
\* response.json() on a body that is no JSON document
JSONDecodeError == "JSONDecodeError"
\* response.raise_for_status() on a 4xx or 5xx status
HTTPError == "HTTPError"
\* session.get() when no response arrives
ConnectionError == "ConnectionError"
\* item["key"] on an object without the key
KeyError == "KeyError"

-----------------------------------------------------------------------------
(* Responses *)

\* Whether text s begins with text prefix: str.startswith
startswith(s, prefix) ==
    /\ Len(s) >= Len(prefix)
    /\ SubSeq(s, 1, Len(prefix)) = prefix

DoctypeMarker == <<"<!DOCTYPE", " ", "html>">>
HtmlMarker    == <<"<html">>

NotJson == [valid |-> FALSE]
Json(v) == [valid |-> TRUE, value |-> v]

\* A response: whether one arrived at all, its status, its body as text and what
\* decoding the body as JSON gives.
Response(status, text, doc) ==
    [arrived |-> TRUE, status |-> status, text |-> text, doc |-> doc]
NoResponse == [arrived |-> FALSE, status |-> 0, text |-> <<>>, doc |-> NotJson]

JsonResponse(status, v) == Response(status, <<"{", "...", "}">>, Json(v))

HtmlTexts ==
    { DoctypeMarker \o <<NL, "<html", ">", "Sign in", "</html>">>,
      <<"<html", " ", "lang=en", ">", "Sign in", "</html>">> }
\* Texts that are neither JSON nor recognised as HTML by the client.
OtherTexts ==
    { <<>>,
      <<"<!doctype", " ", "html>", "<html", ">">>,
      <<NL>> \o DoctypeMarker,
      <<"Bad Gateway">> }

\* response.raise_for_status(): an exception for a 4xx or 5xx status.
IsErrorStatus(status) == 400 <= status /\ status < 600

OkStatuses  == {200}
BadStatuses == {401, 500}

-----------------------------------------------------------------------------
(* JSON payloads the server may serve *)

\* The lists over `variants` of at most MaxItems well-formed items, and each of
\* them with one item damaged in one of the ways damage[item] gives.
ItemLists(variants, damage) ==
    LET whole == SeqsUpTo(variants, MaxItems)
    IN  whole \cup
        { [t[1] EXCEPT ![t[2]] = t[3]] : t \in
            UNION { UNION { { <<l, k, d>> : d \in damage[l[k]] } : k \in 1..Len(l) }
                    : l \in whole } }

\* search/company items: value (the CIK, a number or a string of digits), label,
\* tradingSymbol.
SearchItems ==
    { [value |-> JStr(<<0, 0, 7>>), label |-> "Acme Corp", tradingSymbol |-> "ACME"],
      [value |-> JInt(<<0>>),       label |-> "Zero Holdings", tradingSymbol |-> "ZERO"],
      [value |-> JInt(<<3, 2>>),    label |-> "Acme Ltd", tradingSymbol |-> "ACML"] }
SearchDamage ==
    [item \in SearchItems |-> { Without(item, f) : f \in {"value", "label", "tradingSymbol"} }]

\* transcripts items.
TranscriptItems ==
    { [id |-> "t-1", company |-> [name |-> "Acme Corp", cik |-> 7], ticker |-> "ACME",
       year |-> 2024, quarter |-> 4, title |-> "Acme Q4 2024", date |-> "2025-01-30T21:00:00Z",
       transcriptUrl |-> "/transcript/7/2024/4", exchange |-> "NYSE", marketCap |-> 500],
      [id |-> "t-2", company |-> [name |-> "Zero Holdings", cik |-> 0], ticker |-> "ZERO",
       year |-> 2025, quarter |-> 1, title |-> "Zero Q1 2025", date |-> "2025-04-02T13:00:00Z",
       transcriptUrl |-> "/transcript/0/2025/1", exchange |-> "NASDAQ", marketCap |-> 0] }
TranscriptKeys ==
    {"id", "company", "ticker", "year", "quarter", "title", "date", "transcriptUrl",
     "exchange", "marketCap"}
TranscriptDamage ==
    [item \in TranscriptItems |->
        { Without(item, f) : f \in TranscriptKeys }
        \cup { WithoutInner(item, "company", f) : f \in {"name", "cik"} }]

\* ipos/latest items.
IpoItems ==
    { [id |-> "f-1", type |-> "S-1", filename |-> "s1.htm", date |-> "2025-03-03T00:00:00Z",
       filer |-> [cik |-> 9, name |-> "NewCo"], isFollowOn |-> FALSE],
      [id |-> "f-2", type |-> "424B4", filename |-> "b4.htm", date |-> "2025-03-04T00:00:00Z",
       filer |-> [cik |-> 7, name |-> "Acme Corp"], isFollowOn |-> TRUE] }
IpoKeys == {"id", "type", "filename", "date", "filer", "isFollowOn"}
IpoDamage ==
    [item \in IpoItems |->
        { Without(item, f) : f \in IpoKeys }
        \cup { WithoutInner(item, "filer", f) : f \in {"name", "cik"} }]

\* The "total" fields a listing may carry beside a data list: none, zero, the
\* length of the list, more than the length.
Totals(list) == {None, Some(0), Some(Len(list)), Some(Len(list) + 5)}

\* The JSON object {"total": t, "data": list}, either key left out when absent.
Payload(total, list) ==
    IF total = None THEN [data |-> list] ELSE [total |-> total[1], data |-> list]

EmptyObject == [k \in {} |-> 0]

Payloads ==
    { [data |-> l] : l \in ItemLists(SearchItems, SearchDamage) }
    \cup { Payload(t[1], t[2]) : t \in
            UNION { { <<tot, l>> : tot \in Totals(l) }
                    : l \in ItemLists(TranscriptItems, TranscriptDamage)
                            \cup ItemLists(IpoItems, IpoDamage) } }
    \cup { EmptyObject, [total |-> 7] }

Upstreams ==
    { NoResponse }
    \cup { JsonResponse(200, v) : v \in Payloads }
    \cup { Response(st, t, NotJson) : st \in OkStatuses \cup BadStatuses,
                                      t \in HtmlTexts \cup OtherTexts }
    \cup { JsonResponse(st, [total |-> 0, data |-> <<>>]) : st \in BadStatuses }

-----------------------------------------------------------------------------
(* CapEdgeClient *)

BASE_URL == <<"https://capedge.com/", "v1/", "api/">>

\* urljoin(base, endpoint) for a relative endpoint under a base that ends in "/".
urljoin(base, endpoint) == base \o endpoint

Get(url, params) == [method |-> "GET", url |-> url, params |-> params]

\* response.json()
json(response) ==
    IF response.doc.valid THEN Return(response.doc.value) ELSE Raise(JSONDecodeError)

\* _request with the two checks of lines 120 and 123 in the other order.
RequestOutcome_BodyFirst(response) ==
    IF ~response.arrived THEN Raise(ConnectionError)
    ELSE IF startswith(response.text, DoctypeMarker) \/ startswith(response.text, HtmlMarker)
         THEN Raise(SessionExpired)
    ELSE IF IsErrorStatus(response.status) THEN Raise(HTTPError)
    ELSE json(response)

\* RequestOutcome without the look at the body: the status check, then json().
RequestOutcome_NoBodyCheck(response) ==
    IF ~response.arrived THEN Raise(ConnectionError)
    ELSE IF IsErrorStatus(response.status) THEN Raise(HTTPError)
    ELSE json(response)

\* What _request makes of the response to its GET.
RequestOutcome(response) ==
    IF ~response.arrived THEN Raise(ConnectionError)
    ELSE IF IsErrorStatus(response.status) THEN Raise(HTTPError)
    ELSE IF startswith(response.text, DoctypeMarker) \/ startswith(response.text, HtmlMarker)
         THEN Raise(SessionExpired)
    ELSE json(response)

\* _request that issues its GET a second time when the first attempt raised.
request_RetryOnce(endpoint, params) ==
    LET get == Get(urljoin(BASE_URL, endpoint), params)
        outcome == RequestOutcome(upstream)
    IN  [sent   |-> IF outcome.kind = "raise" THEN <<get, get>> ELSE <<get>>,
         result |-> outcome]

\* _request(endpoint, params): the GET it issues and what it returns or raises.
\* An invocation is a record [sent |-> the GETs issued, result |-> the outcome].
request(endpoint, params) ==
    [sent   |-> <<Get(urljoin(BASE_URL, endpoint), params)>>,
     result |-> RequestOutcome(upstream)]

\* The list a comprehension or loop over the items builds, given what building
\* each record gives: [ok |-> FALSE] when it raises KeyError and
\* [ok |-> TRUE, value |-> the record] otherwise. The first failure ends it all.
Collect(mapped) ==
    IF \E k \in 1..Len(mapped) : ~mapped[k].ok
    THEN Raise(KeyError)
    ELSE Return([k \in 1..Len(mapped) |-> mapped[k].value])

Built(record) == [ok |-> TRUE, value |-> record]
Failed == [ok |-> FALSE]

\* Company(cik=item["value"], name=item["label"], ticker=item.get("tradingSymbol"))
Company(item) ==
    IF Has(item, "value") /\ Has(item, "label")
    THEN Built([cik |-> item["value"], name |-> item["label"],
                ticker |-> GetOpt(item, "tradingSymbol")])
    ELSE Failed

\* search_company(query)
search_company(query) ==
    LET r == request(<<"search/", "company">>, [q |-> query])
    IN  IF ~Returned(r.result) THEN r
        ELSE [sent   |-> r.sent,
              result |-> LET items == GetOr(r.result.value, "data", <<>>)
                         IN  Collect([k \in 1..Len(items) |-> Company(items[k])])]

\* The keys Transcript(...) reads with item[...]: a missing one raises KeyError.
TranscriptComplete(item) ==
    /\ \A f \in {"id", "company", "year", "quarter", "title", "date", "transcriptUrl"} :
          Has(item, f)
    /\ Has(item["company"], "name")
    /\ Has(item["company"], "cik")

\* Transcript with title=item.get("title", ""): a missing title is filled in.
Transcript_DefaultTitle(item) ==
    IF /\ \A f \in {"id", "company", "year", "quarter", "date", "transcriptUrl"} : Has(item, f)
       /\ Has(item["company"], "name")
       /\ Has(item["company"], "cik")
    THEN Built([id             |-> item["id"],
                company_name   |-> item["company"]["name"],
                cik            |-> item["company"]["cik"],
                ticker         |-> GetOr(item, "ticker", ""),
                year           |-> item["year"],
                quarter        |-> item["quarter"],
                title          |-> GetOr(item, "title", ""),
                date           |-> item["date"],
                transcript_url |-> item["transcriptUrl"],
                exchange       |-> GetOpt(item, "exchange"),
                market_cap     |-> GetOpt(item, "marketCap")])
    ELSE Failed

\* Transcript(id=item["id"], ..., market_cap=item.get("marketCap"))
Transcript(item) ==
    IF TranscriptComplete(item)
    THEN Built([id             |-> item["id"],
                company_name   |-> item["company"]["name"],
                cik            |-> item["company"]["cik"],
                ticker         |-> GetOr(item, "ticker", ""),
                year           |-> item["year"],
                quarter        |-> item["quarter"],
                title          |-> item["title"],
                date           |-> item["date"],
                transcript_url |-> item["transcriptUrl"],
                exchange       |-> GetOpt(item, "exchange"),
                market_cap     |-> GetOpt(item, "marketCap")])
    ELSE Failed

\* Python's truth value of an Optional[int]: None and 0 are false.
Truthy(opt) == opt # None /\ opt[1] # 0

\* TranscriptParams with "if company_id is not None": a zero is sent as a filter.
TranscriptParams_NotNone(page, company_id) ==
    IF company_id # None
    THEN [page |-> page, companyId |-> company_id[1]]
    ELSE [page |-> page]

\* params = {"page": page}; if company_id: params["companyId"] = company_id
TranscriptParams(page, company_id) ==
    IF Truthy(company_id)
    THEN [page |-> page, companyId |-> company_id[1]]
    ELSE [page |-> page]

\* Paged with the total counted from the page: "total": len(records).
Paged_CountsPage(data, records) == [total |-> Len(records), data |-> records]

\* {"total": data.get("total", 0), "data": records}
Paged(data, records) == [total |-> GetOr(data, "total", 0), data |-> records]

\* get_transcripts(page, company_id)
get_transcripts(page, company_id) ==
    LET r == request(<<"transcripts">>, TranscriptParams(page, company_id))
    IN  IF ~Returned(r.result) THEN r
        ELSE LET data == r.result.value
                 items == GetOr(data, "data", <<>>)
                 transcripts == Collect([k \in 1..Len(items) |-> Transcript(items[k])])
             IN  [sent   |-> r.sent,
                  result |-> IF Returned(transcripts)
                             THEN Return(Paged(data, transcripts.value))
                             ELSE transcripts]

\* get_company_transcripts(cik, page)
get_company_transcripts(cik, page) == get_transcripts(page, Some(cik))

\* get_latest_transcripts that goes on to page 2 when page 1 is shorter than limit.
get_latest_transcripts_NextPage(limit) ==
    LET r == get_transcripts(1, None)
    IN  IF ~Returned(r.result) THEN r
        ELSE IF limit > Len(r.result.value["data"])
        THEN LET more == get_transcripts(2, None)
             IN  [sent   |-> r.sent \o more.sent,
                  result |-> Return(SliceTo(r.result.value["data"]
                                            \o more.result.value["data"], limit))]
        ELSE [sent |-> r.sent, result |-> Return(SliceTo(r.result.value["data"], limit))]

\* get_latest_transcripts(limit)
get_latest_transcripts(limit) ==
    LET r == get_transcripts(1, None)
    IN  IF ~Returned(r.result) THEN r
        ELSE [sent |-> r.sent, result |-> Return(SliceTo(r.result.value["data"], limit))]

\* find_company_cik that tests the cik instead of the list: "return cik or None".
find_company_cik_CikOrNone(name_or_ticker) ==
    LET r == search_company(name_or_ticker)
    IN  IF ~Returned(r.result) THEN r
        ELSE LET companies == r.result.value
             IN  [sent   |-> r.sent,
                  result |-> IF companies # <<>> /\ int(companies[1].cik) # 0
                             THEN Return(Some(int(companies[1].cik)))
                             ELSE Return(None)]

\* find_company_cik(name_or_ticker)
find_company_cik(name_or_ticker) ==
    LET r == search_company(name_or_ticker)
    IN  IF ~Returned(r.result) THEN r
        ELSE LET companies == r.result.value
             IN  [sent   |-> r.sent,
                  result |-> IF companies # <<>>
                             THEN Return(Some(int(companies[1].cik)))
                             ELSE Return(None)]

\* IPOFiling(id=item.get("id", ""), ..., is_follow_on=item.get("isFollowOn", False))
IPOFiling(item) ==
    Built([id           |-> GetOr(item, "id", ""),
           form_type    |-> GetOr(item, "type", ""),
           filename     |-> GetOr(item, "filename", ""),
           date         |-> GetOr(item, "date", ""),
           cik          |-> GetOpt(GetOr(item, "filer", EmptyObject), "cik"),
           company_name |-> GetOr(GetOr(item, "filer", EmptyObject), "name", ""),
           is_follow_on |-> GetOr(item, "isFollowOn", FALSE)])

\* get_latest_ipos(client, page, limit) of examples/list_ipos.py
get_latest_ipos(page, limit) ==
    LET r == request(<<"ipos/", "latest">>, [page |-> page, limit |-> limit])
    IN  IF ~Returned(r.result) THEN r
        ELSE LET data == r.result.value
                 items == GetOr(data, "data", <<>>)
                 filings == Collect([k \in 1..Len(items) |-> IPOFiling(items[k])])
             IN  [sent |-> r.sent, result |-> Return(Paged(data, filings.value))]

-----------------------------------------------------------------------------
(* Invocations of the client *)

Queries    == {"", "AAPL"}
PageNos    == {1, 2}
CompanyIds == {None, Some(0), Some(7)}
Ciks       == {0, 7}
Limits     == -1 .. (MaxItems + 1)
PageSizes  == {1, MaxItems}

NoCall == [op |-> "none"]

\* The invocation `made` of operation op with arguments args has completed.
Invoke(op, args, made) ==
    /\ pc = "idle"
    /\ invocations < MaxCalls
    /\ call' = [op |-> op, args |-> args]
    /\ sent' = made.sent
    /\ result' = made.result
    /\ invocations' = invocations + 1
    /\ gets' = gets + Len(made.sent)
    /\ UNCHANGED <<upstream, extractor_vars, cookie_vars, batch_vars>>

SearchCompany ==
    \E query \in Queries :
        Invoke("search_company", [query |-> query], search_company(query))

GetTranscripts ==
    \E page \in PageNos, company_id \in CompanyIds :
        Invoke("get_transcripts", [page |-> page, company_id |-> company_id],
               get_transcripts(page, company_id))

GetCompanyTranscripts ==
    \E cik \in Ciks, page \in PageNos :
        Invoke("get_company_transcripts", [cik |-> cik, page |-> page],
               get_company_transcripts(cik, page))

GetLatestTranscripts ==
    \E limit \in Limits :
        Invoke("get_latest_transcripts", [limit |-> limit], get_latest_transcripts(limit))

FindCompanyCik ==
    \E name_or_ticker \in Queries :
        Invoke("find_company_cik", [name_or_ticker |-> name_or_ticker],
               find_company_cik(name_or_ticker))

GetLatestIpos ==
    \E page \in PageNos, limit \in PageSizes :
        Invoke("get_latest_ipos", [page |-> page, limit |-> limit],
               get_latest_ipos(page, limit))

-----------------------------------------------------------------------------
(* CapEdgeClient.from_cookie_string *)
(* Here a text is a sequence of characters.                                *)

\* The least k with s[k .. k + Len(sep) - 1] = sep, or 0 when sep is not in s.
IndexOf(s, sep) ==
    LET hits == { k \in 1..(Len(s) - Len(sep) + 1) : SubSeq(s, k, k + Len(sep) - 1) = sep }
    IN  IF hits = {} THEN 0 ELSE CHOOSE k \in hits : \A h \in hits : k <= h

\* sep in s
Contains(s, sep) == IndexOf(s, sep) # 0

RECURSIVE split(_, _)
\* s.split(sep): the pieces between the occurrences of sep, found left to right.
split(s, sep) ==
    LET k == IndexOf(s, sep)
    IN  IF k = 0 THEN <<s>>
        ELSE <<SubSeq(s, 1, k - 1)>> \o split(SubSeq(s, k + Len(sep), Len(s)), sep)

\* The greatest k with s[k .. k + Len(sep) - 1] = sep, or 0.
LastIndexOf(s, sep) ==
    LET hits == { k \in 1..(Len(s) - Len(sep) + 1) : SubSeq(s, k, k + Len(sep) - 1) = sep }
    IN  IF hits = {} THEN 0 ELSE CHOOSE k \in hits : \A h \in hits : k >= h

\* SplitOnce cut at the last separator: item.rsplit("=", 1)
SplitOnce_Last(item, sep) ==
    LET k == LastIndexOf(item, sep)
    IN  <<SubSeq(item, 1, k - 1), SubSeq(item, k + Len(sep), Len(item))>>

\* item.split("=", 1) for an item that holds "=": <<key, value>>, cut at the first.
SplitOnce(item, sep) ==
    LET k == IndexOf(item, sep)
    IN  <<SubSeq(item, 1, k - 1), SubSeq(item, k + Len(sep), Len(item))>>

\* d[key] = value
SetItem(d, key, value) ==
    [x \in DOMAIN d \cup {key} |-> IF x = key THEN value ELSE d[x]]

RECURSIVE CookiesOf(_, _)
\* The loop of from_cookie_string over the items still to come, d the dict so far.
CookiesOf(items, d) ==
    IF items = <<>> THEN d
    ELSE LET item == Head(items)
         IN  IF Contains(item, <<"=">>)
             THEN LET kv == SplitOnce(item, <<"=">>)
                  IN  CookiesOf(Tail(items), SetItem(d, kv[1], kv[2]))
             ELSE CookiesOf(Tail(items), d)

\* The dict from_cookie_string hands to the constructor.
ParseCookies(s) == CookiesOf(split(s, <<";", " ">>), EmptyObject)

\* The spec's example: "a=1; b=2; malformed; c=3"
ExampleCookieString ==
    <<"a", "=", "1", ";", " ", "b", "=", "2", ";", " ",
      "m", "a", "l", "f", "o", "r", "m", "e", "d", ";", " ", "c", "=", "3">>

CookieChars == {"a", "1", "=", ";", " "}

\* Segments cookie strings are put together from.
CookieSegments ==
    { <<"a", "=", "1">>, <<"a", "=", "2">>, <<"b", "=", "2">>, <<"a", "=", "1", "=", "2">>,
      <<"m", "a", "l">>, <<"b", "=">>, <<>>, <<"b", ";", "=", " ", "1">> }

RECURSIVE JoinWith(_, _)
\* sep.join(pieces)
JoinWith(pieces, sep) ==
    IF pieces = <<>> THEN <<>>
    ELSE IF Len(pieces) = 1 THEN pieces[1]
    ELSE pieces[1] \o sep \o JoinWith(Tail(pieces), sep)

CookieStrings ==
    SeqsUpTo(CookieChars, MaxCookieChars)
    \cup { JoinWith(segs, <<";", " ">>) : segs \in SeqsUpTo(CookieSegments, MaxSegments) }
    \cup { ExampleCookieString }

\* from_cookie_string(cookie_string): parse, then construct the client on the dict.
FromCookieString ==
    /\ cookies = None
    /\ cookies' = Some(ParseCookies(cookie_string))
    /\ UNCHANGED <<cookie_string, extractor_vars, client_vars, batch_vars>>

-----------------------------------------------------------------------------
(* main of fetch_recent_transcripts.py: the loop over the recent transcripts *)

\* A transcript issued a second time for the same company and quarter.
ReissuedItem ==
    [id |-> "t-3", company |-> [name |-> "Zero Holdings", cik |-> 0], ticker |-> "ZERO",
     year |-> 2025, quarter |-> 1, title |-> "Zero Q1 2025 (corrected)",
     date |-> "2025-04-03T09:00:00Z", transcriptUrl |-> "/transcript/0/2025/1b",
     exchange |-> "NASDAQ", marketCap |-> 0]

\* The Transcript records main may find in the listing.
RecentTranscripts == { Transcript(item).value : item \in TranscriptItems \cup {ReissuedItem} }

\* The answer to the GET of a transcript page: the status and the parsed body.
PageResponse(status, soup) == [arrived |-> TRUE, status |-> status, soup |-> soup]
NoPage == [arrived |-> FALSE, status |-> 0, soup |-> Soup(<<>>)]

OSError == "OSError"

\* What can happen to one item: no answer, an error status, a page with a
\* transcript, a page with an empty grid, a page without the grid, and a page
\* with a transcript whose output file cannot be opened.
Fates ==
    { [response |-> NoPage, writable |-> TRUE],
      [response |-> PageResponse(500, PageFull(<<H_Alice, D_HiThere, H_Bob, D_Yo>>)),
       writable |-> TRUE],
      [response |-> PageResponse(200, PageFull(<<H_Alice, D_HiThere, H_Bob, D_Yo>>)),
       writable |-> TRUE],
      [response |-> PageResponse(200, PageFull(<<S_Blank>>)), writable |-> TRUE],
      [response |-> PageResponse(200, PageNoGrid(<<H_Alice, D_Yo>>)), writable |-> TRUE],
      [response |-> PageResponse(200, PageFull(<<S_Blank, H_Bob, D_Yo>>)),
       writable |-> FALSE] }

\* f"{t.ticker}_{t.year}_Q{t.quarter}.txt" under OUTPUT_DIR
filepath(item) == <<"transcripts", "/", item.ticker, "_", item.year, "_Q", item.quarter, ".txt">>

\* The header main writes before the text: the fields it is formatted from.
header(item) ==
    [company_name |-> item.company_name, ticker |-> item.ticker, title |-> item.title,
     day |-> [of |-> item.date, upto |-> 10], quarter |-> item.quarter, year |-> item.year]

\* `if not recent: return`, else on to the loop.
BatchStart ==
    /\ batch_pc = "main"
    /\ batch_pc' = IF recent = <<>> THEN "returned" ELSE "loop"
    /\ UNCHANGED <<recent, site, finished, fetched, report, files>>
    /\ UNCHANGED <<extractor_vars, client_vars, cookie_vars>>

\* The loop body with every exception of the try block escaping from main.
BatchFetch_NoExcept ==
    /\ batch_pc = "loop"
    /\ finished < Len(recent)
    /\ LET response == site[finished + 1].response
       IN  /\ fetched' = Append(fetched, recent[finished + 1].transcript_url)
           /\ IF ~response.arrived \/ IsErrorStatus(response.status)
              THEN /\ batch_pc' = "aborted"
                   /\ UNCHANGED <<report, finished, extractor_vars>>
              ELSE /\ html_content' = response.soup
                   /\ pc' = "start"
                   /\ children' = <<>>
                   /\ i' = 0
                   /\ lines' = <<>>
                   /\ landed' = <<>>
                   /\ reads' = {}
                   /\ transcript_text' = <<>>
                   /\ batch_pc' = "parse"
                   /\ UNCHANGED <<report, finished>>
    /\ UNCHANGED <<recent, site, files>>
    /\ UNCHANGED <<client_vars, cookie_vars>>

\* The loop body up to the call of parse_transcript_html: session.get,
\* raise_for_status, and the except clause when either raises.
BatchFetch ==
    /\ batch_pc = "loop"
    /\ finished < Len(recent)
    /\ LET response == site[finished + 1].response
       IN  /\ fetched' = Append(fetched, recent[finished + 1].transcript_url)
           /\ IF ~response.arrived \/ IsErrorStatus(response.status)
              THEN /\ report' = Append(report, IF ~response.arrived
                                               THEN "ERROR (ConnectionError)"
                                               ELSE "ERROR (HTTPError)")
                   /\ finished' = finished + 1
                   /\ UNCHANGED <<batch_pc, extractor_vars>>
              ELSE /\ html_content' = response.soup
                   /\ pc' = "start"
                   /\ children' = <<>>
                   /\ i' = 0
                   /\ lines' = <<>>
                   /\ landed' = <<>>
                   /\ reads' = {}
                   /\ transcript_text' = <<>>
                   /\ batch_pc' = "parse"
                   /\ UNCHANGED <<report, finished>>
    /\ UNCHANGED <<recent, site, files>>
    /\ UNCHANGED <<client_vars, cookie_vars>>

\* The loop body after parse_transcript_html has returned: the skip of an empty
\* text, the write of the file, and the except clause when open raises.
BatchSave ==
    /\ batch_pc = "parse"
    /\ pc = "done"
    /\ IF transcript_text = <<>>
       THEN /\ report' = Append(report, "SKIP (no content)")
            /\ UNCHANGED files
       ELSE IF ~site[finished + 1].writable
       THEN /\ report' = Append(report, "ERROR (OSError)")
            /\ UNCHANGED files
       ELSE /\ files' = SetItem(files, filepath(recent[finished + 1]),
                                [header |-> header(recent[finished + 1]), text |-> transcript_text])
            /\ report' = Append(report, "OK")
    /\ finished' = finished + 1
    /\ batch_pc' = "loop"
    /\ html_content' = Soup(<<>>)
    /\ pc' = "idle"
    /\ children' = <<>>
    /\ i' = 0
    /\ lines' = <<>>
    /\ landed' = <<>>
    /\ reads' = {}
    /\ transcript_text' = <<>>
    /\ UNCHANGED <<recent, site, fetched>>
    /\ UNCHANGED <<client_vars, cookie_vars>>

\* The list is exhausted: main prints "Done." and returns.
BatchDone ==
    /\ batch_pc = "loop"
    /\ ~(finished < Len(recent))
    /\ batch_pc' = "done"
    /\ UNCHANGED <<recent, site, finished, fetched, report, files>>
    /\ UNCHANGED <<extractor_vars, client_vars, cookie_vars>>

-----------------------------------------------------------------------------
(* Specifications *)

ExtractorIdle ==
    /\ html_content = Soup(<<>>)
    /\ pc = "idle"
    /\ children = <<>>
    /\ i = 0
    /\ lines = <<>>
    /\ landed = <<>>
    /\ reads = {}
    /\ transcript_text = <<>>

ClientIdle(ups) ==
    /\ upstream \in ups
    /\ call = NoCall
    /\ sent = <<>>
    /\ result = NoResult
    /\ invocations = 0
    /\ gets = 0

CookiesIdle ==
    /\ cookie_string = <<>>
    /\ cookies = None

BatchIdle ==
    /\ recent = <<>>
    /\ site = <<>>
    /\ finished = 0
    /\ batch_pc = "idle"
    /\ fetched = <<>>
    /\ report = <<>>
    /\ files = <<>>

\* The client, constructed, facing a server whose answer is fixed.
Init == ExtractorIdle /\ ClientIdle(Upstreams) /\ CookiesIdle /\ BatchIdle

Next ==
    \/ SearchCompany
    \/ GetTranscripts
    \/ GetCompanyTranscripts
    \/ GetLatestTranscripts
    \/ FindCompanyCik
    \/ GetLatestIpos

Spec == Init /\ [][Next]_vars

\* The extractor, handed one page.
InitExtract ==
    /\ html_content \in Pages
    /\ pc = "start"
    /\ children = <<>>
    /\ i = 0
    /\ lines = <<>>
    /\ landed = <<>>
    /\ reads = {}
    /\ transcript_text = <<>>
    /\ ClientIdle({NoResponse})
    /\ CookiesIdle
    /\ BatchIdle

NextExtract == ParseStart \/ LoopHeading \/ LoopOther \/ LoopExit

SpecExtract == InitExtract /\ [][NextExtract]_vars

\* from_cookie_string, handed one cookie string.
InitCookie ==
    /\ cookie_string \in CookieStrings
    /\ cookies = None
    /\ ExtractorIdle
    /\ ClientIdle({NoResponse})
    /\ BatchIdle

NextCookie == FromCookieString

SpecCookie == InitCookie /\ [][NextCookie]_vars

\* main, with its list of recent transcripts and what will happen to each.
InitBatch ==
    /\ recent \in SeqsUpTo(RecentTranscripts, MaxRecent)
    /\ site \in [1 .. Len(recent) -> Fates]
    /\ finished = 0
    /\ batch_pc = "main"
    /\ fetched = <<>>
    /\ report = <<>>
    /\ files = <<>>
    /\ ExtractorIdle
    /\ ClientIdle({NoResponse})
    /\ CookiesIdle

NextBatch ==
    \/ BatchStart
    \/ BatchFetch
    \/ ParseStart
    \/ LoopHeading
    \/ LoopOther
    \/ LoopExit
    \/ BatchSave
    \/ BatchDone

SpecBatch == InitBatch /\ [][NextBatch]_vars

-----------------------------------------------------------------------------
(* The transcript body a text stands for (the "[Speaker]" convention)      *)

IsSpeakerLine(l) ==
    /\ Len(l) >= 4
    /\ l[1] = NL /\ l[2] = "["
    /\ l[Len(l) - 1] = "]" /\ l[Len(l)] = NL

RECURSIVE Segments(_)
\* The segments (speaker, paragraphs) a list of lines holds, in order.
Segments(ls) ==
    IF ls = <<>> THEN <<>>
    ELSE LET l == ls[Len(ls)]
             before == Segments(SubSeq(ls, 1, Len(ls) - 1))
         IN  IF IsSpeakerLine(l)
             THEN Append(before, [speaker |-> SubSeq(l, 3, Len(l) - 2), paragraphs |-> <<>>])
             ELSE IF before = <<>> THEN <<>>
             ELSE [before EXCEPT ![Len(before)].paragraphs = Append(@, l)]

\* What each kind of child used here says, written out by hand.
SpeakerOf(child) ==
    CASE child = H_Alice  -> <<"Alice">>
      [] child = H_Bob    -> <<"Bob">>
      [] child = H_Padded -> <<"Carol", " ", "Lee">>
      [] OTHER            -> <<>>
ParagraphsOf(child) ==
    CASE child = D_HiThere -> << <<"Hi">>, <<"There">> >>
      [] child = D_Yo      -> << <<"Yo">> >>
      [] child = D_Nested  -> << <<" ", "R", "&", "D", " ">> >>
      [] OTHER             -> <<>>

\* The headings the cursor has landed on, as indices from 0, in the order met.
HeadingsReached == SelectSeq(landed, LAMBDA k : ChildAt(k).name = "h3")

\* The segment the heading at index k should give.
SegmentOf(k) ==
    [speaker    |-> SpeakerOf(ChildAt(k)),
     paragraphs |-> IF k + 1 < Len(children) /\ ChildAt(k + 1).name = "div"
                    THEN ParagraphsOf(ChildAt(k + 1))
                    ELSE <<>>]

ExampleChildren == <<H_Alice, D_HiThere, H_Bob, D_Yo>>
ExampleBody ==
    << [speaker |-> <<"Alice">>, paragraphs |-> << <<"Hi">>, <<"There">> >>],
       [speaker |-> <<"Bob">>,   paragraphs |-> << <<"Yo">> >>] >>

\* C2: at every point of the traversal the lines collected so far hold exactly
\* one segment per heading the cursor has landed on, in the order met, each with
\* the heading's trimmed text as speaker and, when the child after the heading is
\* a div, the entity-decoded texts of all the paragraphs in that div in document
\* order (no paragraphs otherwise); the returned text is the lines joined; and the
\* grid [h3 Alice, div[p Hi, p There], h3 Bob, div[p Yo]] gives
\* [(Alice, [Hi, There]), (Bob, [Yo])].
C2_HeadingPairedWithNextBlock ==
    /\ pc \in {"loop", "done"} =>
          Segments(lines) =
              [n \in 1..Len(HeadingsReached) |-> SegmentOf(HeadingsReached[n])]
    /\ pc = "done" => transcript_text = join(lines)
    /\ (pc = "done" /\ children = ExampleChildren) => Segments(lines) = ExampleBody

C2_Witness ==
    /\ pc = "done"
    /\ html_content = PageFull(ExampleChildren)
    /\ Segments(lines) = ExampleBody
    /\ landed = <<0, 2>>

NumberOfHeadings(kids) == Cardinality({k \in 1..Len(kids) : kids[k].name = "h3"})

\* C3: for every list of grid children the transcript body extracted has as many
\* speakers as the grid has heading elements among its direct children.
C3_SpeakerCountIsHeadingCount ==
    (pc = "done" /\ grid_div(html_content) # NoNode) =>
        Len(Segments(lines)) = NumberOfHeadings(grid_div(html_content).kids)

RECURSIVE TagsBelow(_)
\* Every node below a sequence of nodes (the nodes themselves included).
TagsBelow(nodes) ==
    IF nodes = <<>> THEN {}
    ELSE {Head(nodes)} \cup TagsBelow(Head(nodes).kids) \cup TagsBelow(Tail(nodes))

Annotatables(soup) ==
    {n \in TagsBelow(soup.kids) : n.name = "div" /\ "r6o-annotatable" \in n.classes}
GridsBelow(node) ==
    {n \in TagsBelow(node.kids) : n.name = "div" /\ "grid" \in n.classes}

\* C4: when the page has no annotatable container, or has one with no grid
\* container inside it, the extractor returns the empty text, having visited no
\* child and collected no line.
C4_MissingContainerGivesEmpty ==
    (/\ pc = "done"
     /\ \/ Annotatables(html_content) = {}
        \/ \A a \in Annotatables(html_content) : GridsBelow(a) = {})
    => /\ transcript_text = <<>>
       /\ lines = <<>>
       /\ landed = <<>>

C4_Witness ==
    /\ pc = "done"
    /\ html_content = PageNoGrid(<<H_Alice, D_Yo>>)
    /\ transcript_text = <<>>

C4_WitnessNoAnnotatable ==
    /\ pc = "done"
    /\ html_content = PageNoAnnotatable(<<H_Alice, D_Yo>>)
    /\ transcript_text = <<>>

-----------------------------------------------------------------------------
(* Claims about the client *)

Called == call.op # "none"
\* The server answered with a JSON document and a status that is no error.
Answered == upstream.arrived /\ ~IsErrorStatus(upstream.status) /\ upstream.doc.valid
            /\ ~startswith(upstream.text, DoctypeMarker)
            /\ ~startswith(upstream.text, HtmlMarker)
\* The "data" list of the JSON document served.
ServedItems == GetOr(upstream.doc.value, "data", <<>>)

StartsWithDoctype == upstream.arrived /\ startswith(upstream.text, DoctypeMarker)

\* C1 as stated: whenever the body of the response to a GET starts with
\* <!DOCTYPE html>, the call raises SessionExpired.
C1_HtmlBodyRaisesSessionExpired ==
    (Called /\ StartsWithDoctype) => Raised(result, SessionExpired)

\* C1 as amended: a body starting with <!DOCTYPE html> raises SessionExpired when
\* the status is no error status and the transport error HTTPError when it is; in
\* both cases the call raises no JSON-decode error and returns no value.
C1_HtmlBodyNeverDecoded ==
    (Called /\ StartsWithDoctype) =>
        /\ IF IsErrorStatus(upstream.status)
           THEN Raised(result, HTTPError)
           ELSE Raised(result, SessionExpired)
        /\ ~Raised(result, JSONDecodeError)
        /\ ~Returned(result)

C1_Witness ==
    /\ Called
    /\ StartsWithDoctype
    /\ upstream.status = 200
    /\ Raised(result, SessionExpired)

\* C5: whenever the search behind find_company_cik yields a sequence of
\* companies, find_company_cik returns the (integer) cik of its first company if
\* there is one, a cik of 0 included and whatever companies follow, and None if
\* the sequence is empty.
C5_FirstCikOrNone ==
    (call.op = "find_company_cik"
     /\ Returned(search_company(call.args.name_or_ticker).result)) =>
        LET companies == search_company(call.args.name_or_ticker).result.value
        IN  /\ Returned(result)
            /\ companies = <<>> => result.value = None
            /\ companies # <<>> =>
                  /\ result.value = Some(DecimalValue(ServedItems[1]["value"].digits))
                  /\ result.value = Some(int(companies[1].cik))
            /\ result.value = None <=> companies = <<>>

C5_Witness ==
    /\ call.op = "find_company_cik"
    /\ Answered
    /\ Len(ServedItems) = 2
    /\ ServedItems[1]["value"] = JInt(<<0>>)
    /\ ServedItems[2]["value"] = JStr(<<0, 0, 7>>)
    /\ result = Return(Some(0))

TranscriptsUrl == <<"https://capedge.com/", "v1/", "api/", "transcripts">>

\* C6: get_transcripts(page, company_id) sends one GET of the transcripts
\* endpoint whose parameters are page, and companyId exactly when company_id was
\* given and is not zero; get_company_transcripts(0, page) sends the request of
\* get_transcripts(page), and get_company_transcripts(cik, page) with cik # 0
\* sends page and companyId = cik.
C6_CompanyIdSentIffNonZero ==
    /\ call.op = "get_transcripts" =>
          /\ Len(sent) = 1
          /\ sent[1].method = "GET" /\ sent[1].url = TranscriptsUrl
          /\ Has(sent[1].params, "companyId")
                <=> (call.args.company_id # None /\ call.args.company_id[1] # 0)
          /\ sent[1].params =
                IF call.args.company_id \in {None, Some(0)}
                THEN [page |-> call.args.page]
                ELSE [page |-> call.args.page, companyId |-> call.args.company_id[1]]
    /\ call.op = "get_company_transcripts" =>
          sent = << [method |-> "GET", url |-> TranscriptsUrl,
                     params |-> IF call.args.cik = 0
                                THEN [page |-> call.args.page]
                                ELSE [page |-> call.args.page, companyId |-> call.args.cik]] >>

C6_Witness ==
    /\ call.op = "get_company_transcripts"
    /\ call.args.cik = 0
    /\ sent = <<[method |-> "GET", url |-> TranscriptsUrl, params |-> [page |-> 2]]>>

C6_WitnessFiltered ==
    /\ call.op = "get_company_transcripts"
    /\ call.args.cik = 7
    /\ sent = <<[method |-> "GET", url |-> TranscriptsUrl,
                 params |-> [page |-> 2, companyId |-> 7]]>>

\* Whether a transcripts item lacks one of the fields the listing requires.
LacksRequired(item) ==
    \/ \E f \in {"id", "year", "quarter", "title", "date", "transcriptUrl"} : ~Has(item, f)
    \/ ~Has(item, "company")
    \/ Has(item, "company") /\ (~Has(item["company"], "name") \/ ~Has(item["company"], "cik"))

ListingOps == {"get_transcripts", "get_company_transcripts"}

\* C7: when the server answers a transcript listing with items of which one
\* lacks a required field (id, company.name, company.cik, year, quarter, title,
\* date, transcriptUrl), the call raises the mapping error (KeyError) and returns
\* nothing; and whenever a listing returns, it holds one Transcript per item, in
\* order, with every required field equal to the item's and only ticker, exchange
\* and market_cap filled in ("" , None, None) where the item has none.
C7_MissingRequiredFieldRaises ==
    (call.op \in ListingOps /\ Answered) =>
        /\ (\E k \in 1..Len(ServedItems) : LacksRequired(ServedItems[k]))
              => (Raised(result, KeyError) /\ ~Returned(result))
        /\ Returned(result) =>
              /\ Len(result.value.data) = Len(ServedItems)
              /\ \A k \in 1..Len(ServedItems) :
                    LET item == ServedItems[k]
                        t == result.value.data[k]
                    IN  /\ ~LacksRequired(item)
                        /\ t.id = item["id"]
                        /\ t.company_name = item["company"]["name"]
                        /\ t.cik = item["company"]["cik"]
                        /\ t.year = item["year"]
                        /\ t.quarter = item["quarter"]
                        /\ t.title = item["title"]
                        /\ t.date = item["date"]
                        /\ t.transcript_url = item["transcriptUrl"]
                        /\ t.ticker = (IF Has(item, "ticker") THEN item["ticker"] ELSE "")
                        /\ t.exchange =
                              (IF Has(item, "exchange") THEN Some(item["exchange"]) ELSE None)
                        /\ t.market_cap =
                              (IF Has(item, "marketCap") THEN Some(item["marketCap"]) ELSE None)

\* A listing whose first item is whole and whose second lacks its title fails.
C7_Witness ==
    /\ call.op = "get_transcripts"
    /\ Answered
    /\ Len(ServedItems) = 2
    /\ ~LacksRequired(ServedItems[1])
    /\ ~Has(ServedItems[2], "title")
    /\ Raised(result, KeyError)

\* C8: get_latest_transcripts(limit) sends one GET, for page 1 of the transcripts
\* endpoint with no company filter; and when limit >= 0 and page 1 maps to n
\* records it returns the first min(limit, n) of them in their order.
C8_LatestIsPrefixOfPageOne ==
    call.op = "get_latest_transcripts" =>
        /\ sent = <<[method |-> "GET", url |-> TranscriptsUrl, params |-> [page |-> 1]]>>
        /\ (call.args.limit >= 0 /\ Returned(get_transcripts(1, None).result)) =>
              LET page1 == get_transcripts(1, None).result.value.data
              IN  /\ Returned(result)
                  /\ Len(result.value) = Min(call.args.limit, Len(page1))
                  /\ Len(page1) = Len(ServedItems)
                  /\ \A k \in 1..Len(result.value) :
                        /\ result.value[k] = page1[k]
                        /\ result.value[k].id = ServedItems[k]["id"]

\* A limit beyond the length of page 1 gives all of page 1, from one request.
C8_Witness ==
    /\ call.op = "get_latest_transcripts"
    /\ Returned(result)
    /\ Len(result.value) = 2
    /\ result.value[1].id # result.value[2].id
    /\ call.args.limit = 3
    /\ Len(sent) = 1

C8_WitnessTruncated ==
    /\ call.op = "get_latest_transcripts"
    /\ Returned(result)
    /\ Len(ServedItems) = 2
    /\ call.args.limit = 1
    /\ Len(result.value) = 1

PagedOps == {"get_transcripts", "get_company_transcripts", "get_latest_ipos"}

\* C9 as stated: every paged result returned by the transcript listing and by the
\* IPO filing listing has total >= len(data) and, where a page size was asked for
\* (the limit of the IPO listing), len(data) <= that page size.
C9_PagedBoundsWhateverServed ==
    (call.op \in PagedOps /\ Returned(result)) =>
        /\ result.value.total >= Len(result.value.data)
        /\ call.op = "get_latest_ipos" => Len(result.value.data) <= call.args.limit

\* Whether the payload served is itself within the bounds for this call.
ServedWithinBounds ==
    /\ Has(upstream.doc.value, "total")
    /\ upstream.doc.value["total"] >= Len(ServedItems)
    /\ call.op = "get_latest_ipos" => Len(ServedItems) <= call.args.limit

\* C9 as amended: a paged result carries the total of the payload served (0 when
\* the payload has none) and one record per item served; so it has
\* total >= len(data) and len(data) <= the page size asked for whenever the
\* payload served has.
C9_PagedResultMirrorsPayload ==
    (call.op \in PagedOps /\ Returned(result)) =>
        /\ result.value.total =
              (IF Has(upstream.doc.value, "total") THEN upstream.doc.value["total"] ELSE 0)
        /\ Len(result.value.data) = Len(ServedItems)
        /\ ServedWithinBounds =>
              /\ result.value.total >= Len(result.value.data)
              /\ call.op = "get_latest_ipos" => Len(result.value.data) <= call.args.limit

C9_Witness ==
    /\ call.op = "get_latest_ipos"
    /\ Returned(result)
    /\ ServedWithinBounds
    /\ Len(result.value.data) = 2
    /\ result.value.total = 7

C9_WitnessTranscripts ==
    /\ call.op = "get_transcripts"
    /\ Returned(result)
    /\ ServedWithinBounds
    /\ Len(result.value.data) = 2
    /\ result.value.total = 7

-----------------------------------------------------------------------------
(* Claims about from_cookie_string *)

CookieSeparator == <<";", " ">>

\* The place of the first "=" of an item that holds one.
FirstEquals(item) ==
    CHOOSE j \in 1..Len(item) : item[j] = "=" /\ \A h \in 1..(j - 1) : item[h] # "="
NameOf(item)  == SubSeq(item, 1, FirstEquals(item) - 1)
ValueOf(item) == SubSeq(item, FirstEquals(item) + 1, Len(item))
HoldsEquals(item) == \E j \in 1..Len(item) : item[j] = "="

ExampleCookies ==
    [name \in {<<"a">>, <<"b">>, <<"c">>} |->
        CASE name = <<"a">> -> <<"1">>
          [] name = <<"b">> -> <<"2">>
          [] name = <<"c">> -> <<"3">>]

\* C10: the cookie string is cut at every "; " and nowhere else; the mapping has
\* exactly the names of the segments that hold "=", a name being the text before
\* the segment's first "=", each mapped to all the text after the first "=" of the
\* last segment with that name; segments without "=" add nothing; and
\* "a=1; b=2; malformed; c=3" gives {a: "1", b: "2", c: "3"}.
C10_CookieStringParsing ==
    cookies # None =>
        LET d == cookies[1]
            items == split(cookie_string, CookieSeparator)
            named == {k \in 1..Len(items) : HoldsEquals(items[k])}
        IN  /\ JoinWith(items, CookieSeparator) = cookie_string
            /\ \A k \in 1..Len(items) : ~Contains(items[k], CookieSeparator)
            /\ DOMAIN d = {NameOf(items[k]) : k \in named}
            /\ \A k \in named :
                  (\A j \in named : j > k => NameOf(items[j]) # NameOf(items[k]))
                      => d[NameOf(items[k])] = ValueOf(items[k])
            /\ cookie_string = ExampleCookieString => d = ExampleCookies

C10_Witness ==
    /\ cookie_string = ExampleCookieString
    /\ cookies = Some(ExampleCookies)

\* "a=1; a=1=2": the later segment wins, and its value keeps its own "=".
C10_WitnessReplaced ==
    /\ cookie_string = <<"a", "=", "1", ";", " ", "a", "=", "1", "=", "2">>
    /\ cookies # None
    /\ DOMAIN cookies[1] = {<<"a">>}
    /\ cookies[1][<<"a">>] = <<"1", "=", "2">>


-----------------------------------------------------------------------------
(* Claims about the order of the checks in _request *)

\* The body of the response looks like an HTML document to _request.
HtmlBody ==
    upstream.arrived /\ (startswith(upstream.text, DoctypeMarker)
                         \/ startswith(upstream.text, HtmlMarker))

\* response.json() ran during the call: it is the last statement of _request, so
\* the call either surfaced its JSONDecodeError or went on with its value, which
\* the operation returned or failed to map.
Decoded ==
    Returned(result) \/ Raised(result, JSONDecodeError) \/ Raised(result, KeyError)

\* C14: in _request the status is checked before the body is looked at. A response
\* with an error status always surfaces as the transport error HTTPError, an HTML
\* body included; SessionExpired is raised only for a response that arrived with a
\* status that is no error (and with an HTML body); and in neither case is the
\* body JSON-decoded.
C14_StatusCheckedBeforeBody ==
    Called =>
        /\ (upstream.arrived /\ IsErrorStatus(upstream.status)) =>
              (Raised(result, HTTPError) /\ ~Decoded)
        /\ Raised(result, SessionExpired) =>
              (upstream.arrived /\ ~IsErrorStatus(upstream.status) /\ HtmlBody /\ ~Decoded)
        /\ Raised(result, HTTPError) => (upstream.arrived /\ IsErrorStatus(upstream.status))

\* An error status with an HTML body: the transport error, not SessionExpired.
C14_Witness ==
    /\ Called
    /\ IsErrorStatus(upstream.status)
    /\ HtmlBody
    /\ startswith(upstream.text, HtmlMarker)
    /\ Raised(result, HTTPError)

\* A successful status with an HTML body: SessionExpired.
C14_WitnessSessionExpired ==
    /\ Called
    /\ upstream.arrived
    /\ upstream.status \in OkStatuses
    /\ startswith(upstream.text, HtmlMarker)
    /\ Raised(result, SessionExpired)


-----------------------------------------------------------------------------
(* Claims about the traversal of the grid's children *)

Last(s) == s[Len(s)]

\* C13: the traversal terminates and never reads outside the child list. The
\* cursor starts at 0 and grows by 1 or 2 in each iteration, every index read is
\* in 0 .. len(children) - 1, the cursor never exceeds len(children), there are at
\* most len(children) iterations, and the function is never stuck before it has
\* returned: it returns with the cursor at len(children), also when the last
\* child is a heading with nothing after it.
C13_TraversalBoundedAndInRange ==
    /\ reads \subseteq 0 .. (Len(children) - 1)
    /\ i \in 0 .. Len(children)
    /\ Len(landed) <= Len(children)
    /\ landed # <<>> =>
          /\ landed[1] = 0
          /\ \A k \in 1 .. (Len(landed) - 1) : landed[k + 1] - landed[k] \in {1, 2}
          /\ i - Last(landed) \in {1, 2}
          /\ \A k \in 1 .. Len(landed) : landed[k] \in reads
    /\ landed = <<>> => i = 0
    /\ pc = "done" => i = Len(children)
    /\ pc = "done" \/ ENABLED NextExtract

\* The last child is a heading with nothing after it: the cursor landed on it,
\* went one further and the function returned.
C13_Witness ==
    /\ pc = "done"
    /\ children = <<H_Alice, D_Yo, H_Bob>>
    /\ landed = <<0, 2>>
    /\ reads = {0, 1, 2}
    /\ i = 3

\* As many iterations as there are children.
C13_WitnessEveryChild ==
    /\ pc = "done"
    /\ Len(children) = MaxChildren
    /\ Len(landed) = MaxChildren
    /\ Last(children).name = "h3"


-----------------------------------------------------------------------------
(* Claims about the number of requests *)

PublicOps == {"search_company", "get_transcripts", "get_company_transcripts",
              "get_latest_transcripts", "find_company_cik"}

\* The text t begins with the text prefix.
BeginsWith(t, prefix) == Len(t) >= Len(prefix) /\ SubSeq(t, 1, Len(prefix)) = prefix

\* C11: every invocation of a public operation issues exactly one GET, against the
\* API base, whether it returns or raises (transport error, session expired,
\* undecodable body, missing key): after k invocations on one client exactly k
\* GETs were issued, one by each.
C11_OneGetPerInvocation ==
    /\ gets = invocations
    /\ Called =>
          /\ Len(sent) = 1
          /\ sent[1].method = "GET"
          /\ BeginsWith(sent[1].url, BASE_URL)

\* A second invocation, of a public operation, after the first; it fails to map
\* the items served, and two GETs were issued in all.
C11_Witness ==
    /\ invocations = 2
    /\ gets = 2
    /\ call.op \in PublicOps
    /\ Raised(result, KeyError)

\* The same with a transport error.
C11_WitnessTransport ==
    /\ invocations = 2
    /\ gets = 2
    /\ call.op \in PublicOps
    /\ Raised(result, ConnectionError)


-----------------------------------------------------------------------------
(* Claims about the batch driver *)

\* The page holds a transcript: a grid inside the annotatable container with a
\* heading among its children.
HoldsTranscript(soup) ==
    /\ transcript_grid(soup) # NoNode
    /\ grid_div(soup) # NoNode
    /\ \E k \in 1 .. Len(grid_div(soup).kids) : grid_div(soup).kids[k].name = "h3"

\* What is to become of the k-th item of recent, by what the site holds for it.
Becomes(k) ==
    LET response == site[k].response
    IN  IF ~response.arrived THEN "ERROR (ConnectionError)"
        ELSE IF IsErrorStatus(response.status) THEN "ERROR (HTTPError)"
        ELSE IF ~HoldsTranscript(response.soup) THEN "SKIP (no content)"
        ELSE IF ~site[k].writable THEN "ERROR (OSError)"
        ELSE "OK"

\* The items among the first n that were written to path p.
WrittenTo(p, n) == {k \in 1 .. n : Becomes(k) = "OK" /\ filepath(recent[k]) = p}

\* C12: a failure of one item (no answer, an error status, an empty extraction, a
\* file that cannot be opened) does not end the batch. At every point of the run
\* the items of recent were fetched once each, in list order; each finished item
\* got the status its own page and file give it, whatever became of the items
\* before it; every item whose page holds a transcript and whose file can be
\* opened was written (the file holds the header of the last such item written
\* to that path, and a text); and main is never stuck or ended by an exception
\* before the list is exhausted.
C12_FailuresDoNotAbortBatch ==
    /\ finished \in 0 .. Len(recent)
    /\ Len(report) = finished
    /\ Len(fetched) = finished + (IF batch_pc = "parse" THEN 1 ELSE 0)
    /\ \A k \in 1 .. Len(fetched) : fetched[k] = recent[k].transcript_url
    /\ \A k \in 1 .. finished : report[k] = Becomes(k)
    /\ DOMAIN files = {filepath(recent[k]) : k \in {j \in 1 .. finished : Becomes(j) = "OK"}}
    /\ \A p \in DOMAIN files :
          LET last == CHOOSE k \in WrittenTo(p, finished) :
                          \A j \in WrittenTo(p, finished) : j <= k
          IN  /\ files[p].header = header(recent[last])
              /\ files[p].text # <<>>
    /\ batch_pc # "aborted"
    /\ batch_pc = "done" => finished = Len(recent)
    /\ batch_pc = "returned" => recent = <<>>
    /\ batch_pc \in {"done", "returned"} \/ ENABLED NextBatch

\* The first item fails with an error status, the second is written all the same.
C12_Witness ==
    /\ batch_pc = "done"
    /\ Len(recent) = 2
    /\ report = <<"ERROR (HTTPError)", "OK">>
    /\ DOMAIN files = {filepath(recent[2])}
    /\ fetched = <<recent[1].transcript_url, recent[2].transcript_url>>

\* An empty extraction, then a file that cannot be opened: nothing is written and
\* the loop runs to its end.
C12_WitnessNothingWritten ==
    /\ batch_pc = "done"
    /\ report = <<"SKIP (no content)", "ERROR (OSError)">>
    /\ files = <<>>

\* Two items for the same company and quarter: the second file replaces the first.
C12_WitnessSamePath ==
    /\ batch_pc = "done"
    /\ report = <<"OK", "OK">>
    /\ recent[1] # recent[2]
    /\ DOMAIN files = {filepath(recent[1])}
    /\ files[filepath(recent[1])].header = header(recent[2])

=============================================================================
